---------------------------- MODULE Spec2Model ----------------------------
(***************************************************************************)
(* Model of the rule-based anomaly detection engine of                    *)
(* src/src/rules/engine.py (BusinessRulesEngine) and of the Alert schema  *)
(* of src/src/models/schemas.py.                                          *)
(*                                                                         *)
(* A DataFrame is a record [columns, rows]: rows is a sequence of         *)
(* functions from the column names to values; the index label of a row is *)
(* its position in the sequence.  Timestamps are whole hours counted from *)
(* a Monday 00:00, money and prices are integers, and fractions are kept  *)
(* exact by cross-multiplication (thresholds given as fractions in the    *)
(* configuration are held in hundredths).  Cells are never missing (no    *)
(* NaN), amounts are non-negative, and sort_values keeps tied keys in     *)
(* their groupby order.  A detector call ends by returning None, by       *)
(* returning a RuleResult or by raising; the only exceptions modelled are *)
(* the KeyErrors of columns read without a guard and the ValidationError  *)
(* of the Alert schema.                                                   *)
(***************************************************************************)
EXTENDS Integers, Sequences, FiniteSets, Bags, TLC

VARIABLES df, df_in, dataset_type, thresholds, pc, rule_i, results,
          outcomes, invoked, produced, alert_input, alert_i, alerts, returned_alerts,
          now, calls, materialized, run, first_results, prev_call, done

vars == <<df, df_in, dataset_type, thresholds, pc, rule_i, results,
          outcomes, invoked, produced, alert_input, alert_i, alerts, returned_alerts,
          now, calls, materialized, run, first_results, prev_call, done>>

-----------------------------------------------------------------------------
(* Bounds of the model *)

MaxRows == 2
MaxClock == 2
MaxCalls == 2
MaxRuns == 2
MaxGroupRows == 3

-----------------------------------------------------------------------------
(* Generic helpers *)

Min(a, b) == IF a < b THEN a ELSE b

Abs(x) == IF x < 0 THEN -x ELSE x

Range(s) == {s[i] : i \in DOMAIN s}

(* the sum of a sequence of numbers, taken half by half *)
RECURSIVE SumSeq(_)
SumSeq(s) ==
    IF Len(s) = 0 THEN 0
    ELSE IF Len(s) = 1 THEN s[1]
    ELSE SumSeq(SubSeq(s, 1, Len(s) \div 2))
            + SumSeq(SubSeq(s, (Len(s) \div 2) + 1, Len(s)))

RECURSIVE ProdSeq(_)
ProdSeq(s) == IF s = <<>> THEN 1 ELSE Head(s) * ProdSeq(Tail(s))

RECURSIVE Concat(_)
Concat(ss) == IF ss = <<>> THEN <<>> ELSE Head(ss) \o Concat(Tail(ss))

(* the elements of a finite set of integers, ascending *)
SortedSeq(S) ==
    [k \in 1..Cardinality(S) |->
        CHOOSE x \in S : Cardinality({y \in S : y < x}) = k - 1]

(* a sequence of indices, stably sorted by descending key[i] *)
RECURSIVE StableSortDesc(_, _)
StableSortDesc(s, key) ==
    IF s = <<>> THEN <<>>
    ELSE LET p == CHOOSE i \in DOMAIN s :
                      /\ \A j \in DOMAIN s : key[s[j]] <= key[s[i]]
                      /\ \A j \in 1..(i - 1) : key[s[j]] < key[s[i]]
             rest == [j \in 1..(Len(s) - 1) |-> IF j < p THEN s[j] ELSE s[j + 1]]
         IN  <<s[p]>> \o StableSortDesc(rest, key)

(* some element of a non-empty set *)
AnyOf(S) == CHOOSE x \in S : TRUE

(* first n elements of a sequence (pandas head / nlargest cut) *)
Take(s, n) == SubSeq(s, 1, Min(n, Len(s)))

-----------------------------------------------------------------------------
(* Rule types and the registry, in the insertion order of self.rules *)

RuleTypes == <<"overpricing", "split_orders", "supplier_concentration",
               "recurring_emergency", "payroll_anomaly", "unusual_timing",
               "duplicate_payments">>

RuleTypeSet == Range(RuleTypes)

(* the matrix with split_orders ticked for contratos as well *)
IsRuleApplicableWide(rule_type, dtype) ==
    \/ rule_type \in {"overpricing", "split_orders", "supplier_concentration",
                      "recurring_emergency", "unusual_timing"}
          /\ dtype \in {"despesas", "contratos"}
    \/ rule_type = "payroll_anomaly" /\ dtype = "folha"
    \/ rule_type = "duplicate_payments" /\ dtype \in {"despesas", "folha"}

_is_rule_applicable(rule_type, dtype) ==
    LET applicability ==
            [r \in RuleTypeSet |->
                CASE r = "overpricing"            -> {"despesas", "contratos"}
                  [] r = "split_orders"           -> {"despesas"}
                  [] r = "supplier_concentration" -> {"despesas", "contratos"}
                  [] r = "recurring_emergency"    -> {"despesas", "contratos"}
                  [] r = "payroll_anomaly"        -> {"folha"}
                  [] r = "unusual_timing"         -> {"despesas", "contratos"}
                  [] r = "duplicate_payments"     -> {"despesas", "folha"}]
    IN  dtype \in applicability[rule_type]

-----------------------------------------------------------------------------
(* DataFrames *)

Suppliers == <<"A", "B", "C", "D", "E", "F", "G", "H", "I", "J">>

SupplierRank(s) == CHOOSE i \in DOMAIN Suppliers : Suppliers[i] = s

HoursPerDay == 24

DaysPerWeek == 7

At(day, hour) == day * HoursPerDay + hour

(* pd.to_datetime(...).dt.date / .dt.hour / .dt.dayofweek (Monday = 0) *)
DateOnly(ts) == ts \div HoursPerDay

HourOf(ts) == ts % HoursPerDay

DayOfWeek(ts) == (ts \div HoursPerDay) % DaysPerWeek

Idx(d) == 1..Len(d.rows)

(* df[mask].index.tolist(): the labels of the selected rows, in row order *)
Labels(S) == SortedSeq(S)

(* df[name] = vals : adds (or overwrites) a column in place *)
WithColumn(d, name, vals) ==
    [columns |-> d.columns \cup {name},
     rows    |-> [i \in 1..Len(d.rows) |->
                    [c \in d.columns \cup {name} |->
                        IF c = name THEN vals[i] ELSE d.rows[i][c]]]]

(* a detector that keeps the calendar day in the date column itself *)
DateOnlyColumnIsDate == "date"

(* the column _check_split_orders adds at line 135 *)
DateOnlyColumn == "date_only"

(* df['date_only'] = pd.to_datetime(df['date']).dt.date *)
WriteDateOnly(d) ==
    WithColumn(d, DateOnlyColumn, [i \in Idx(d) |-> DateOnly(d.rows[i].date)])

(* df['hour'] = pd.to_datetime(df['date']).dt.hour *)
WriteHour(d) ==
    WithColumn(d, "hour", [i \in Idx(d) |-> HourOf(d.rows[i].date)])

(* df['day_of_week'] = pd.to_datetime(df['date']).dt.dayofweek *)
WriteDayOfWeek(d) ==
    WithColumn(d, "day_of_week", [i \in Idx(d) |-> DayOfWeek(d.rows[i].date)])

(* lexicographic order on integer tuples of one length *)
LexLess(a, b) ==
    \E k \in DOMAIN a : a[k] < b[k] /\ \A j \in 1..(k - 1) : a[j] = b[j]

RECURSIVE SortedKeys(_)
SortedKeys(K) ==
    IF K = {} THEN <<>>
    ELSE LET m == CHOOSE x \in K : \A y \in K \ {x} : LexLess(x, y)
         IN  <<m>> \o SortedKeys(K \ {m})

(* df.groupby(by): the groups as sets of row positions, in ascending order *)
(* of the key tuple key[i] of row i                                        *)
GroupsBy(key) ==
    LET keys == SortedKeys({key[i] : i \in DOMAIN key})
    IN  [k \in 1..Len(keys) |-> {i \in DOMAIN key : key[i] = keys[k]}]

(* the amounts (or other numeric column) of a set of rows, summed *)
SumOver(d, S, col) ==
    LET labels == Labels(S)
    IN  SumSeq([k \in 1..Len(labels) |-> d.rows[labels[k]][col]])

-----------------------------------------------------------------------------
(* Rule results and detector outcomes *)

RuleResult(rule_type, passed, score, message, affected_records, evidence) ==
    [rule_type |-> rule_type, passed |-> passed, score |-> score,
     message |-> message, affected_records |-> affected_records,
     evidence |-> evidence]

NoResult == RuleResult("none", TRUE, 0, <<>>, <<>>, <<>>)

(* a detector call ends in one of: return None, return a RuleResult, raise; *)
(* df is the DataFrame as the call leaves it                                *)
ReturnNone(d) == [kind |-> "none", result |-> NoResult, df |-> d]

Return(r, d) == [kind |-> "result", result |-> r, df |-> d]

Raise(d) == [kind |-> "raise", result |-> NoResult, df |-> d]

(* int(num / den): the quotient cut towards zero, den # 0 *)
IntOf(num, den) ==
    IF (num >= 0) = (den > 0)
    THEN Abs(num) \div Abs(den)
    ELSE -(Abs(num) \div Abs(den))

(* '{x:.1f}' of the fraction num/den, in tenths *)
Tenths(num, den) ==
    IF (num >= 0) = (den > 0)
    THEN (20 * Abs(num) + Abs(den)) \div (2 * Abs(den))
    ELSE -((20 * Abs(num) + Abs(den)) \div (2 * Abs(den)))

-----------------------------------------------------------------------------
(* _check_overpricing *)

(* a score that rounds the count term to the nearest ten *)
OverpricingRiskScoreRounded(n, num, den) ==
    Min(10, ((n + 5) \div 10) + (num \div (50 * den)))

(* min(10, int(len(overpriced_items) / 10) + int(avg_overpricing / 50)), *)
(* with avg_overpricing = num / den                                      *)
OverpricingRiskScore(n, num, den) ==
    Min(10, (n \div 10) + (num \div (50 * den)))

_check_overpricing(d, thr) ==
    IF "unit_price" \notin d.columns \/ "price_mean" \notin d.columns
    THEN ReturnNone(d)
    ELSE
    LET pct == thr.overpricing_percentage
        overpriced == {i \in Idx(d) :
                          /\ d.rows[i].unit_price * 100 > d.rows[i].price_mean * (100 + pct)
                          /\ d.rows[i].price_mean > 0
                          /\ d.rows[i].unit_price > 0}
        items == Labels(overpriced)
        n == Len(items)
        means == [k \in 1..n |-> d.rows[items[k]].price_mean]
        P == ProdSeq(means)
        (* avg_overpricing = num / den *)
        num == SumSeq([k \in 1..n |->
                  100 * (d.rows[items[k]].unit_price - means[k]) * (P \div means[k])])
        den == n * P
        risk_score == OverpricingRiskScore(n, num, den)
        price == [i \in Idx(d) |-> d.rows[i].unit_price]
        top5 == Take(StableSortDesc(items, price), 5)
    IN  IF n > 0
        THEN IF "description" \notin d.columns
             THEN Raise(d)
             ELSE Return(RuleResult("overpricing", FALSE, risk_score,
                     <<"Found", n, "items with prices", Tenths(num, den),
                       "% above market average">>,
                     items,
                     <<<<"overpriced_count", n>>,
                       <<"average_overpricing", <<num, den>>>>,
                       <<"threshold_used", pct>>,
                       <<"most_overpriced",
                         [k \in 1..Len(top5) |->
                            <<d.rows[top5[k]].description,
                              d.rows[top5[k]].unit_price,
                              d.rows[top5[k]].price_mean>>]>>>>), d)
        ELSE Return(RuleResult("overpricing", TRUE, 0,
                     <<"No overpricing detected">>, <<>>, <<>>), d)

-----------------------------------------------------------------------------
(* _check_split_orders *)

(* a test that also takes a day's total equal to the threshold *)
IsSplitAtThreshold(count, below, total, threshold) ==
    count > 1 /\ below > 1 /\ total >= threshold

(* len(group) > 1, and len(below_threshold) > 1 and total_amount > threshold *)
IsSplit(count, below, total, threshold) ==
    count > 1 /\ below > 1 /\ total > threshold

(* a score that rounds the record term to the nearest five *)
SplitOrdersRiskScoreRounded(ns, n) == Min(10, ns + ((n + 2) \div 5))

(* min(10, len(suspicious_groups) + int(total_suspicious_records / 5)) *)
SplitOrdersRiskScore(ns, n) == Min(10, ns + (n \div 5))

_check_split_orders(d, thr) ==
    IF "supplier" \notin d.columns \/ "amount" \notin d.columns
    THEN ReturnNone(d)
    ELSE IF "date" \notin d.columns
    THEN Raise(d)
    ELSE
    LET threshold == thr.split_order_threshold
        d1 == WriteDateOnly(d)
        groups == GroupsBy([i \in Idx(d1) |->
                     <<SupplierRank(d1.rows[i].supplier), d1.rows[i][DateOnlyColumn]>>])
        Total(g) == SumOver(d1, g, "amount")
        suspicious == SelectSeq(groups, LAMBDA g :
                         IsSplit(Cardinality(g),
                                 Cardinality({i \in g : d1.rows[i].amount < threshold}),
                                 Total(g), threshold))
        ns == Len(suspicious)
        total_suspicious_records ==
            SumSeq([k \in 1..ns |-> Cardinality(suspicious[k])])
        risk_score == SplitOrdersRiskScore(ns, total_suspicious_records)
    IN  IF ns > 0
        THEN Return(RuleResult("split_orders", FALSE, risk_score,
                     <<"Found", ns, "potential order splitting cases involving",
                       total_suspicious_records, "records">>,
                     Concat([k \in 1..ns |-> Labels(suspicious[k])]),
                     <<<<"suspicious_groups",
                         [k \in 1..ns |->
                            [supplier |-> d1.rows[AnyOf(suspicious[k])].supplier,
                             date |-> d1.rows[AnyOf(suspicious[k])][DateOnlyColumn],
                             orders_count |-> Cardinality(suspicious[k]),
                             total_amount |-> Total(suspicious[k]),
                             individual_amounts |->
                                 [j \in 1..Cardinality(suspicious[k]) |->
                                     d1.rows[Labels(suspicious[k])[j]].amount],
                             record_ids |-> Labels(suspicious[k])]]>>,
                       <<"threshold_used", threshold>>,
                       <<"total_cases", ns>>>>), d1)
        ELSE Return(RuleResult("split_orders", TRUE, 0,
                     <<"No order splitting detected">>, <<>>, <<>>), d1)

-----------------------------------------------------------------------------
(* _check_supplier_concentration *)

Top3Ceiling == 80

(* a comparison that also takes a share equal to the limit *)
ReachesShare(part, whole, hundredths) ==
    IF whole > 0 THEN part * 100 >= hundredths * whole
                 ELSE part * 100 <= hundredths * whole

(* part / whole > limit, the limit given in hundredths; whole # 0 and the *)
(* inequality turns when whole is negative                               *)
ExceedsShare(part, whole, hundredths) ==
    IF whole > 0 THEN part * 100 > hundredths * whole
                 ELSE part * 100 < hundredths * whole

(* a list that adds only the first of the three largest suppliers *)
ConcentratedTopOnly(first, head3, over) ==
    IF over THEN first \o SelectSeq(Take(head3, 1), LAMBDA k : k \notin Range(first))
    ELSE first

(* concentrated_suppliers: the top supplier if its share is over the     *)
(* threshold, then, if the three largest are over their ceiling, those   *)
(* of them not yet listed                                                *)
Concentrated(first, head3, over) ==
    IF over THEN first \o SelectSeq(head3, LAMBDA k : k \notin Range(first))
    ELSE first

_check_supplier_concentration(d, thr) ==
    IF "supplier" \notin d.columns \/ "amount" \notin d.columns
    THEN ReturnNone(d)
    ELSE
    LET threshold == thr.supplier_concentration_threshold
        groups == GroupsBy([i \in Idx(d) |-> <<SupplierRank(d.rows[i].supplier)>>])
        total == [k \in 1..Len(groups) |-> SumOver(d, groups[k], "amount")]
        (* supplier_totals: group numbers by descending total, ties in key order *)
        order == StableSortDesc([k \in 1..Len(groups) |-> k], total)
        name(k) == d.rows[AnyOf(groups[k])].supplier
        total_spending == SumSeq(total)
        top == total[order[1]]
        head3 == Take(order, 3)
        top_3 == SumSeq([k \in 1..Len(head3) |-> total[head3[k]]])
        first == IF ExceedsShare(top, total_spending, threshold)
                 THEN <<order[1]>> ELSE <<>>
        concentrated ==
            Concentrated(first, head3, ExceedsShare(top_3, total_spending, Top3Ceiling))
        nc == Len(concentrated)
        affected_suppliers == {name(concentrated[k]) : k \in 1..nc}
        affected_records ==
            Labels({i \in Idx(d) : d.rows[i].supplier \in affected_suppliers})
        risk_score == Min(10, IntOf(top * 10, total_spending) + nc)
    IN  IF total_spending = 0
        THEN ReturnNone(d)
        ELSE IF nc > 0
        THEN Return(RuleResult("supplier_concentration", FALSE, risk_score,
                     <<"High supplier concentration detected: top supplier has",
                       Tenths(top * 100, total_spending), "% of total spending">>,
                     affected_records,
                     <<<<"concentrated_suppliers",
                         [k \in 1..nc |->
                            [supplier |-> name(concentrated[k]),
                             percentage |-> <<total[concentrated[k]] * 100, total_spending>>,
                             amount |-> total[concentrated[k]]]]>>,
                       <<"top_supplier_percentage", <<top * 100, total_spending>>>>,
                       <<"top_3_percentage", <<top_3 * 100, total_spending>>>>,
                       <<"threshold_used", threshold>>,
                       <<"total_spending", total_spending>>>>), d)
        ELSE Return(RuleResult("supplier_concentration", TRUE, 0,
                     <<"No excessive supplier concentration detected">>, <<>>, <<>>), d)

-----------------------------------------------------------------------------
(* _check_recurring_emergency *)

_check_recurring_emergency(d, thr) ==
    IF "is_emergency" \notin d.columns \/ "supplier" \notin d.columns
    THEN ReturnNone(d)
    ELSE
    LET emergency == {i \in Idx(d) : d.rows[i].is_emergency = TRUE}
        E == Labels(emergency)
        days_threshold == thr.emergency_recurrence_days
        groups == GroupsBy([k \in 1..Len(E) |-> <<SupplierRank(d.rows[E[k]].supplier)>>])
        (* a group holds positions in E *)
        Rows(g) == {E[k] : k \in g}
        first(g) == CHOOSE t \in {d.rows[i].date : i \in Rows(g)} :
                        \A i \in Rows(g) : t <= d.rows[i].date
        last(g) == CHOOSE t \in {d.rows[i].date : i \in Rows(g)} :
                        \A i \in Rows(g) : t >= d.rows[i].date
        (* Timedelta.days of last - first *)
        days_between(g) == (last(g) - first(g)) \div HoursPerDay
        suspicious == SelectSeq(groups, LAMBDA g :
                         /\ Cardinality(g) > 1
                         /\ days_between(g) <= days_threshold)
        ns == Len(suspicious)
        total_suspicious_records ==
            SumSeq([k \in 1..ns |-> Cardinality(suspicious[k])])
        risk_score == Min(10, ns * 2 + (total_suspicious_records \div 5))
    IN  IF Len(E) = 0
        THEN ReturnNone(d)
        ELSE IF "date" \notin d.columns \/ "amount" \notin d.columns
        THEN Raise(d)
        ELSE IF ns > 0
        THEN Return(RuleResult("recurring_emergency", FALSE, risk_score,
                     <<"Found", ns, "suppliers with recurring emergency purchases within",
                       days_threshold, "days">>,
                     Concat([k \in 1..ns |-> Labels(Rows(suspicious[k]))]),
                     <<<<"suspicious_suppliers",
                         [k \in 1..ns |->
                            [supplier |-> d.rows[AnyOf(Rows(suspicious[k]))].supplier,
                             emergency_count |-> Cardinality(suspicious[k]),
                             days_between |-> days_between(suspicious[k]),
                             total_amount |-> SumOver(d, Rows(suspicious[k]), "amount"),
                             record_ids |-> Labels(Rows(suspicious[k]))]]>>,
                       <<"days_threshold", days_threshold>>,
                       <<"total_emergency_purchases", Len(E)>>>>), d)
        ELSE Return(RuleResult("recurring_emergency", TRUE, 0,
                     <<"No recurring emergency purchases detected">>, <<>>, <<>>), d)

-----------------------------------------------------------------------------
(* _check_payroll_anomaly *)

Positions == <<"chief", "clerk">>

PositionRank(p) == CHOOSE i \in DOMAIN Positions : Positions[i] = p

MinGroupSize == 3

ZScoreCutoff == 2

(* an outlier test at one standard deviation *)
IsOutlierOneSigma(x, n, S, Q) ==
    (n * x - S) * (n * x - S) * (n - 1) > n * (n * Q - S * S)

(* the sample statistics of a group of payments xs: n, sum S and sum of    *)
(* squares Q give mean = S/n and std^2 = (n*Q - S*S) / (n*(n-1))           *)
IsOutlier(x, n, S, Q) ==
    (* abs(x - mean) > 2 * std *)
    (n * x - S) * (n * x - S) * (n - 1)
        > ZScoreCutoff * ZScoreCutoff * n * (n * Q - S * S)

ExceedsVariation(x, n, S, threshold) ==
    (* abs(x - mean) / mean > threshold; a zero mean divides to +inf, a    *)
    (* negative one to a negative deviation                                 *)
    IF S = 0 THEN TRUE
    ELSE IF S < 0 THEN FALSE
    ELSE Abs(n * x - S) * 100 > threshold * S

_check_payroll_anomaly(d, thr) ==
    IF "total_payment" \notin d.columns \/ "position" \notin d.columns
    THEN ReturnNone(d)
    ELSE
    LET threshold == thr.payroll_variation_threshold
        groups == GroupsBy([i \in Idx(d) |-> <<PositionRank(d.rows[i].position)>>])
        pay(i) == d.rows[i].total_payment
        N(g) == Cardinality(g)
        S(g) == SumOver(d, g, "total_payment")
        Q(g) == SumSeq([k \in 1..N(g) |-> pay(Labels(g)[k]) * pay(Labels(g)[k])])
        Anomalous(g) ==
            IF N(g) >= MinGroupSize /\ N(g) * Q(g) - S(g) * S(g) > 0
            THEN SelectSeq(Labels(g), LAMBDA i :
                    /\ IsOutlier(pay(i), N(g), S(g), Q(g))
                    /\ ExceedsVariation(pay(i), N(g), S(g), threshold))
            ELSE <<>>
        anomalies == Concat([k \in 1..Len(groups) |-> Anomalous(groups[k])])
        GroupOf(i) == {j \in Idx(d) : d.rows[j].position = d.rows[i].position}
        na == Len(anomalies)
        risk_score == Min(10, na)
    IN  IF na > 0
        THEN IF "employee_id" \notin d.columns \/ "name" \notin d.columns
             THEN Raise(d)
             ELSE Return(RuleResult("payroll_anomaly", FALSE, risk_score,
                     <<"Found", na, "payroll anomalies with significant deviations from position averages">>,
                     anomalies,
                     <<<<"anomalies",
                         [k \in 1..na |->
                            [employee_id |-> d.rows[anomalies[k]].employee_id,
                             name |-> d.rows[anomalies[k]].name,
                             position |-> d.rows[anomalies[k]].position,
                             payment |-> pay(anomalies[k]),
                             position_mean |-> <<S(GroupOf(anomalies[k])), N(GroupOf(anomalies[k]))>>,
                             deviation_percentage |->
                                 <<Abs(N(GroupOf(anomalies[k])) * pay(anomalies[k])
                                       - S(GroupOf(anomalies[k]))) * 100,
                                   S(GroupOf(anomalies[k]))>>,
                             record_id |-> anomalies[k]]]>>,
                       <<"threshold_used", threshold>>,
                       <<"total_employees", Len(d.rows)>>>>), d)
        ELSE Return(RuleResult("payroll_anomaly", TRUE, 0,
                     <<"No payroll anomalies detected">>, <<>>, <<>>), d)

-----------------------------------------------------------------------------
(* _check_unusual_timing *)

(* hours that also take six o'clock in the morning *)
UnusualHoursThroughSix == {0, 1, 2, 3, 4, 5, 6, 22, 23}

UnusualHours == {0, 1, 2, 3, 4, 5, 22, 23}

WeekendDays == {5, 6}

(* a score that counts a started ten as a whole one *)
UnusualTimingRiskScoreCeil(n) == Min(10, (n + 9) \div 10)

(* min(10, int(len(unusual_timing) / 10)) *)
UnusualTimingRiskScore(n) == Min(10, n \div 10)

_check_unusual_timing(d, thr) ==
    IF "date" \notin d.columns
    THEN ReturnNone(d)
    ELSE
    LET d1 == WriteHour(d)
        d2 == WriteDayOfWeek(d1)
        unusual_hours == {i \in Idx(d2) : d2.rows[i].hour \in UnusualHours}
        weekend_days == {i \in Idx(d2) : d2.rows[i].day_of_week \in WeekendDays}
        unusual_timing == Labels(unusual_hours \cup weekend_days)
        n == Len(unusual_timing)
        risk_score == UnusualTimingRiskScore(n)
    IN  IF n > 0
        THEN Return(RuleResult("unusual_timing", FALSE, risk_score,
                     <<"Found", n, "transactions at unusual times (late night, early morning, or weekends)">>,
                     unusual_timing,
                     <<<<"unusual_count", n>>,
                       <<"total_transactions", Len(d2.rows)>>,
                       <<"unusual_percentage", <<n * 100, Len(d2.rows)>>>>,
                       <<"time_breakdown",
                         [late_night |-> Cardinality(unusual_hours),
                          weekends |-> Cardinality(weekend_days)]>>>>), d2)
        ELSE Return(RuleResult("unusual_timing", TRUE, 0,
                     <<"No unusual timing detected">>, <<>>, <<>>), d2)

-----------------------------------------------------------------------------
(* _check_duplicate_payments *)

(* a key that leaves the amount out *)
DuplicateColsNoAmount == <<"supplier", "date">>

DuplicateCols == <<"supplier", "amount", "date">>

(* the value of a key column as an integer, for ordering the groups *)
KeyValue(row, col) ==
    IF col = "supplier" THEN SupplierRank(row[col]) ELSE row[col]

_check_duplicate_payments(d, thr) ==
    IF "amount" \notin d.columns \/ "supplier" \notin d.columns
    THEN ReturnNone(d)
    ELSE
    LET available_cols == SelectSeq(DuplicateCols, LAMBDA c : c \in d.columns)
        key == [i \in Idx(d) |->
                  [k \in 1..Len(available_cols) |-> KeyValue(d.rows[i], available_cols[k])]]
        (* df.duplicated(subset, keep=False) *)
        dup == {i \in Idx(d) : \E j \in Idx(d) : j # i /\ key[j] = key[i]}
        duplicates == Labels(dup)
        groups == GroupsBy([k \in 1..Len(duplicates) |-> key[duplicates[k]]])
        Rows(g) == {duplicates[k] : k \in g}
        duplicate_groups == SelectSeq(groups, LAMBDA g : Cardinality(g) > 1)
        ng == Len(duplicate_groups)
        risk_score == Min(10, ng)
    IN  IF Len(available_cols) < 2
        THEN ReturnNone(d)
        ELSE IF Len(duplicates) > 0
        THEN Return(RuleResult("duplicate_payments", FALSE, risk_score,
                     <<"Found", ng, "sets of potential duplicate payments involving",
                       Len(duplicates), "records">>,
                     duplicates,
                     <<<<"duplicate_groups",
                         [k \in 1..ng |->
                            [criteria |-> key[AnyOf(Rows(duplicate_groups[k]))],
                             count |-> Cardinality(duplicate_groups[k]),
                             record_ids |-> Labels(Rows(duplicate_groups[k])),
                             total_amount |-> SumOver(d, Rows(duplicate_groups[k]), "amount")]]>>,
                       <<"total_duplicates", Len(duplicates)>>,
                       <<"criteria_used", available_cols>>>>), d)
        ELSE Return(RuleResult("duplicate_payments", TRUE, 0,
                     <<"No duplicate payments detected">>, <<>>, <<>>), d)

-----------------------------------------------------------------------------
(* The Alert schema and create_alerts_from_results *)

TicksPerSecond == 2

MinRiskScore == 1

MaxRiskScore == 10

(* datetime.now().strftime('%Y%m%d_%H%M%S'): the clock reading cut to the second *)
Stamp(t) == t \div TicksPerSecond

(* an Alert whose description is the templated title instead of the message *)
MakeAlertTitleAsDescription(result, t_id, t_created) ==
    [id |-> <<result.rule_type, "_", Stamp(t_id)>>,
     rule_type |-> result.rule_type,
     title |-> <<"Anomalia Detectada:", result.rule_type>>,
     description |-> <<"Anomalia Detectada:", result.rule_type>>,
     risk_score |-> result.score,
     affected_records |-> result.affected_records,
     created_at |-> t_created,
     is_investigated |-> FALSE,
     investigated_at |-> "None",
     investigator |-> "None",
     notes |-> "None"]

(* Alert(...) as built at lines 478-487; the optional fields keep their defaults *)
MakeAlert(result, t_id, t_created) ==
    [id |-> <<result.rule_type, "_", Stamp(t_id)>>,
     rule_type |-> result.rule_type,
     title |-> <<"Anomalia Detectada:", result.rule_type>>,
     description |-> result.message,
     risk_score |-> result.score,
     affected_records |-> result.affected_records,
     created_at |-> t_created,
     is_investigated |-> FALSE,
     investigated_at |-> "None",
     investigator |-> "None",
     notes |-> "None"]

(* the field constraint risk_score: int = Field(..., ge=1, le=10) *)
AlertValid(a) == a.risk_score >= MinRiskScore /\ a.risk_score <= MaxRiskScore

-----------------------------------------------------------------------------
(* run_all_rules *)

(* self.rules[rule_type](df) *)
rule_func(rule_type, d, thr) ==
    CASE rule_type = "overpricing"            -> _check_overpricing(d, thr)
      [] rule_type = "split_orders"           -> _check_split_orders(d, thr)
      [] rule_type = "supplier_concentration" -> _check_supplier_concentration(d, thr)
      [] rule_type = "recurring_emergency"    -> _check_recurring_emergency(d, thr)
      [] rule_type = "payroll_anomaly"        -> _check_payroll_anomaly(d, thr)
      [] rule_type = "unusual_timing"         -> _check_unusual_timing(d, thr)
      [] rule_type = "duplicate_payments"     -> _check_duplicate_payments(d, thr)

(* appends whatever RuleResult the detector returned *)
CollectAny(res, out) ==
    IF out.kind = "result" THEN Append(res, out.result) ELSE res

(* if result and not result.passed: results.append(result) *)
Collect(res, out) ==
    IF out.kind = "result" /\ ~out.result.passed
    THEN Append(res, out.result)
    ELSE res

(* a try/except around the whole loop: the first exception ends the batch *)
NextRuleAbortOnRaise(i, out) ==
    IF out.kind = "raise" THEN Len(RuleTypes) + 1 ELSE i + 1

(* a loop that stays on a detector that raised, to invoke it again *)
NextRuleRetryOnRaise(i, out) ==
    IF out.kind = "raise" THEN i ELSE i + 1

(* the try/except sits inside the for loop: whatever the detector did, the *)
(* loop goes on with the next rule                                          *)
NextRule(i, out) == i + 1

OutcomeOf(out) ==
    CASE out.kind = "none"  -> "none"
      [] out.kind = "raise" -> "raise"
      [] out.kind = "result" -> IF out.result.passed THEN "passed" ELSE "failed"

-----------------------------------------------------------------------------
(* Inputs *)

Row(supplier, amount, date, unit_price, price_mean, is_emergency, position, total_payment) ==
    [supplier |-> supplier, amount |-> amount, date |-> date,
     unit_price |-> unit_price, price_mean |-> price_mean,
     description |-> "item", is_emergency |-> is_emergency,
     position |-> position, total_payment |-> total_payment,
     employee_id |-> "emp", name |-> "nome"]

RowTemplates ==
    { Row("A", 5000, At(0, 10), 50, 20, TRUE,  "clerk", 50),
      Row("A", 5000, At(0, 10), 26, 20, TRUE,  "clerk", 50),
      Row("B", 1000, At(5, 23), 21, 20, FALSE, "clerk", 200),
      Row("A", 9000, At(42, 10), 10, 0, TRUE,  "chief", 0),
      Row("C", 0,    At(1, 12),  0, 20, FALSE, "chief", 0) }

ColsDespesas == {"supplier", "amount", "date", "unit_price", "price_mean",
                 "description", "is_emergency"}

ColsFolha == {"employee_id", "name", "position", "total_payment", "date"}

ColsContratos == {"supplier", "amount", "description", "is_emergency"}

(* the batches handed to the engine: a dataset type with the columns its *)
(* DataFrame carries                                                      *)
Batches ==
    { <<"despesas", ColsDespesas>>,
      <<"despesas", ColsDespesas \ {"date"}>>,
      <<"despesas", ColsDespesas \ {"description"}>>,
      <<"contratos", ColsContratos>>,
      <<"contratos", ColsDespesas>>,
      <<"folha", ColsFolha>>,
      <<"folha", ColsFolha \cup {"supplier", "amount"}>>,
      <<"unknown", ColsDespesas>> }

ThresholdProfiles ==
    { [overpricing_percentage |-> 25, split_order_threshold |-> 8000,
       supplier_concentration_threshold |-> 70, emergency_recurrence_days |-> 30,
       payroll_variation_threshold |-> 30],
      [overpricing_percentage |-> 50, split_order_threshold |-> 12000,
       supplier_concentration_threshold |-> 90, emergency_recurrence_days |-> 45,
       payroll_variation_threshold |-> 50] }

RECURSIVE SeqsUpTo(_, _)
SeqsUpTo(S, n) ==
    IF n = 0 THEN {<<>>}
    ELSE LET shorter == SeqsUpTo(S, n - 1)
         IN  shorter \cup {Append(s, x) : s \in shorter, x \in S}

Frame(cols, templates) ==
    [columns |-> cols,
     rows |-> [i \in 1..Len(templates) |-> [c \in cols |-> templates[i][c]]]]

(* Batches that exercise one detector each.  Prices: one or two records  *)
(* of any price pair, or nine or ten records priced 3 against a mean of 2 *)
(* followed by up to two more                                             *)
PricePairs == {<<250, 100>>, <<105, 100>>, <<3, 2>>, <<14, 2>>, <<5, 0>>, <<2, 2>>}

SmallPricePairs == {<<3, 2>>, <<14, 2>>, <<2, 2>>}

PriceRow(pair) == Row("A", 100, At(0, 10), pair[1], pair[2], FALSE, "clerk", 50)

Repeat(x, n) == [i \in 1..n |-> x]

PriceFrames ==
    {Frame(ColsDespesas, [i \in DOMAIN ps |-> PriceRow(ps[i])]) :
        ps \in SeqsUpTo(PricePairs, 2) \ {<<>>}}
    \cup
    {Frame(ColsDespesas, Repeat(PriceRow(<<3, 2>>), n)
                            \o [i \in DOMAIN ps |-> PriceRow(ps[i])]) :
        n \in {9, 10}, ps \in SeqsUpTo(SmallPricePairs, 2)}

(* orders of one supplier on two days, with another supplier's orders of *)
(* the same amounts on three different days                              *)
SplitRow(supplier, amount, day) ==
    Row(supplier, amount, At(day, 10), 20, 20, FALSE, "clerk", 50)

SplitRows == {SplitRow("A", a, day) : a \in {3000, 9000}, day \in {0, 1}}

SplitFrames ==
    {Frame(ColsDespesas, ts) : ts \in SeqsUpTo(SplitRows, MaxGroupRows)}
    \cup
    {Frame(ColsDespesas,
           <<SplitRow("A", 3000, 0), SplitRow("A", 3000, 0), SplitRow("A", 3000, 0),
             SplitRow("B", 3000, 0), SplitRow("B", 3000, 1), SplitRow("B", 3000, 2)>>),
     (* the orders of two days, taken in turn *)
     Frame(ColsDespesas,
           <<SplitRow("A", 3000, 0), SplitRow("A", 3000, 1), SplitRow("A", 3000, 0),
             SplitRow("A", 3000, 1), SplitRow("A", 9000, 0), SplitRow("A", 3000, 1)>>)}

(* one contract per supplier, the amounts given supplier by supplier *)
OneEach(amounts) ==
    [i \in DOMAIN amounts |->
        Row(Suppliers[i], amounts[i], At(0, 10), 20, 20, FALSE, "clerk", 50)]

SpendVectors ==
    {v \in SeqsUpTo({10, 60}, 5) : Len(v) >= 4}
    \cup
    { Repeat(10, 10),
      <<810>> \o Repeat(10, 9),
      <<40, 20, 20, 10, 10>>,
      <<70, 10, 5, 5, 5, 5>>,
      <<70, 5, 5, 5, 5, 5, 5>>,
      <<71, 5, 5, 5, 5, 5, 4>>,
      <<71, 4, 4, 4, 4, 4, 4, 5>>,
      <<10, 10, 60>>,
      <<0, 0, 0, 0>>,
      <<10, 0>>,
      <<10, -50>>,
      <<50, -10>>,
      <<30, -20, -10>>,
      <<100, -10, -10, -10, -10>> }

(* contracts of up to three suppliers, one of them with two amounts *)
SpendRow(supplier, amount) ==
    Row(supplier, amount, At(0, 10), 20, 20, FALSE, "clerk", 50)

SpendRows == {SpendRow("A", 10), SpendRow("A", 60), SpendRow("B", 10), SpendRow("C", 10)}

SpendFrames ==
    {Frame(ColsContratos, OneEach(v)) : v \in SpendVectors}
    \cup {Frame(ColsContratos, ts) : ts \in SeqsUpTo(SpendRows, MaxGroupRows) \ {<<>>}}

(* emergency purchases of one supplier 30 days and 2 hours, and 31 days, *)
(* after its first, one of another supplier, and an ordinary purchase    *)
EmergencyRow(supplier, date, is_emergency) ==
    Row(supplier, 100, date, 20, 20, is_emergency, "clerk", 50)

EmergencyRows ==
    { EmergencyRow("A", At(0, 23), TRUE),
      EmergencyRow("A", At(31, 1), TRUE),
      EmergencyRow("A", At(31, 23), TRUE),
      EmergencyRow("B", At(0, 23), TRUE),
      EmergencyRow("A", At(0, 23), FALSE) }

EmergencyFrames ==
    {Frame(cols, ts) : cols \in {ColsDespesas, ColsDespesas \ {"amount"}},
                       ts \in SeqsUpTo(EmergencyRows, MaxGroupRows) \ {<<>>}}

(* the payments 5000, 5100, 4900, 5050, 20000 of one position, in units of 50 *)
ExamplePayments == <<100, 102, 98, 101, 400>>

(* the payments of one position, in hundreds; the last ones sum to zero *)
PayVectors ==
    { ExamplePayments,
      <<-1, -1, -1, -1, -1, 5>>,
      <<-1, -1, 2>>,
      <<0, 0, 0, 0, 0, 0>>,
      <<50, 51, 49, 50, 200>>,
      <<50, 51, 49, 50, 50, 200>>,
      <<50, 50, 50, 50, 50, 50, 50, 50, 50, 200>>,
      <<50, 50, 50, 50, 50, 50, 50, 50, 62, 62>>,
      <<50, 50, 50>>,
      <<10, 50, 90>>,
      <<200, 50>> }

PayRows(payments) ==
    [i \in DOMAIN payments |->
        Row("A", 100 + i, At(0, 10), 20, 20, FALSE, "clerk", payments[i])]

PayFrames ==
    {Frame(cols, PayRows(v)) : cols \in {ColsFolha, ColsFolha \ {"employee_id"}},
                               v \in PayVectors}

(* every group of 3, 4 or 5 payments of -50, 1 or 200; and six chiefs *)
(* followed by five clerks, the last of each paid 200                 *)
SmallGroupSizes == {3, 4, 5}

SmallGroupPayments == {-50, 1, 200}

SmallPayVectors ==
    {v \in SeqsUpTo(SmallGroupPayments, 5) : Len(v) \in SmallGroupSizes}

ChiefRows(payments) ==
    [i \in DOMAIN payments |->
        Row("A", 100 + i, At(0, 10), 20, 20, FALSE, "chief", payments[i])]

SmallPayFrames ==
    {Frame(ColsFolha, PayRows(v)) : v \in SmallPayVectors}
    \cup {Frame(ColsFolha, ChiefRows(<<50, 51, 49, 50, 50, 200>>)
                              \o PayRows(<<50, 51, 49, 50, 200>>))}

(* purchases on Monday at 5 and at 6, on Friday at 21 and at 22, on       *)
(* Saturday at 10 and on Sunday at 21; and many purchases on a Saturday  *)
(* followed by some on a Monday morning                                  *)
TimingRow(date) == Row("A", 100, date, 20, 20, FALSE, "clerk", 50)

TimingDates == {At(0, 5), At(0, 6), At(4, 21), At(4, 22), At(5, 10), At(6, 21)}

TimingCounts == {<<9, 1>>, <<10, 1>>, <<19, 0>>, <<110, 1>>}

TimingFrames ==
    {Frame(ColsDespesas, [i \in DOMAIN ds |-> TimingRow(ds[i])]) :
        ds \in SeqsUpTo(TimingDates, MaxGroupRows) \ {<<>>}}
    \cup
    {Frame(ColsDespesas, Repeat(TimingRow(At(5, 10)), c[1])
                            \o Repeat(TimingRow(At(0, 10)), c[2])) : c \in TimingCounts}

(* payments of 500 and 501 to one supplier on one day, of 500 to another *)
(* supplier and on another day; and eleven payments made twice          *)
DupRow(supplier, amount, day) ==
    Row(supplier, amount, At(day, 10), 20, 20, FALSE, "clerk", 50)

DupRows == {DupRow("A", 500, 10), DupRow("A", 501, 10),
            DupRow("B", 500, 10), DupRow("A", 500, 11)}

ElevenPairs == [i \in 1..22 |-> DupRow("A", 500 + ((i + 1) \div 2), 10)]

DupFramesOver(cols) ==
    {Frame(cols, ts) : ts \in SeqsUpTo(DupRows, MaxGroupRows) \ {<<>>}}

DuplicateFrames ==
    DupFramesOver(ColsDespesas) \cup DupFramesOver(ColsDespesas \ {"date"})
    \cup DupFramesOver(ColsDespesas \ {"amount"})
    \cup {Frame(ColsDespesas, ElevenPairs)}

(* payroll frames that carry an amount but no supplier *)
FolhaDuplicateFrames == DupFramesOver(ColsFolha \cup {"amount"})

WideBatches ==
    {<<"despesas", f>> : f \in PriceFrames \cup SplitFrames \cup EmergencyFrames
                                \cup TimingFrames \cup DuplicateFrames}
    \cup {<<"folha", f>> : f \in FolhaDuplicateFrames \cup SmallPayFrames}
    \cup {<<"contratos", f>> : f \in SpendFrames}
    \cup {<<"folha", f>> : f \in PayFrames}

PendingOutcomes == [r \in RuleTypeSet |-> "pending"]

(* what a detector that has not finished has to show *)
Pending == [kind |-> "pending", result |-> NoResult]

PendingDone == [r \in RuleTypeSet |-> Pending]

(* create_alerts_from_results has not been called before *)
NoCall == [input |-> <<>>, ended |-> "none"]

(* results = [], line 49 with the list kept from the call before *)
InitialResultsKept(previous) == previous

(* results = [], line 49 *)
InitialResults(previous) == <<>>

-----------------------------------------------------------------------------
(* The state machine *)

(* the engine is built and handed a batch: a DataFrame and its dataset type *)
Begin(dtype, d) ==
    /\ dataset_type = dtype
    /\ df = d
    /\ df_in = d
    /\ thresholds \in ThresholdProfiles
    /\ pc = "rules"
    /\ rule_i = 1
    /\ results = <<>>
    /\ outcomes = PendingOutcomes
    /\ invoked = <<>>
    /\ produced = <<>>
    /\ alert_input = <<>>
    /\ alert_i = 1
    /\ alerts = <<>>
    /\ returned_alerts = <<>>
    /\ now = 0
    /\ calls = 0
    /\ materialized = EmptyBag
    /\ run = 1
    /\ first_results = <<>>
    /\ prev_call = NoCall
    /\ done = PendingDone

Init ==
    \E b \in Batches, ts \in SeqsUpTo(RowTemplates, MaxRows) :
        Begin(b[1], Frame(b[2], ts))

(* one iteration of the for loop of run_all_rules, lines 51-61 *)
RunRule ==
    /\ pc = "rules"
    /\ rule_i <= Len(RuleTypes)
    /\ LET rule_type == RuleTypes[rule_i]
       IN  IF _is_rule_applicable(rule_type, dataset_type)
           THEN LET out == rule_func(rule_type, df, thresholds)
                IN  /\ df' = out.df
                    /\ results' = Collect(results, out)
                    /\ outcomes' = [outcomes EXCEPT ![rule_type] = OutcomeOf(out)]
                    /\ invoked' = Append(invoked, rule_type)
                    /\ produced' = IF out.kind = "result"
                                   THEN Append(produced, out.result)
                                   ELSE produced
                    /\ rule_i' = NextRule(rule_i, out)
           ELSE /\ outcomes' = [outcomes EXCEPT ![rule_type] = "skipped"]
                /\ rule_i' = rule_i + 1
                /\ UNCHANGED <<df, results, invoked, produced>>
    /\ UNCHANGED <<df_in, dataset_type, thresholds, pc, alert_input, alert_i,
                   alerts, returned_alerts, now, calls, materialized>>
    /\ UNCHANGED <<run, first_results, prev_call, done>>

(* return results, line 63 *)
ReturnResults ==
    /\ pc = "rules"
    /\ rule_i > Len(RuleTypes)
    /\ pc' = "returned"
    /\ UNCHANGED <<df, df_in, dataset_type, thresholds, rule_i, results,
                   outcomes, invoked, produced, alert_input, alert_i, alerts,
                   returned_alerts, now, calls, materialized>>
    /\ UNCHANGED <<run, first_results, prev_call, done>>

(* the caller calls run_all_rules again with the same DataFrame object, as *)
(* the call before left it, the same dataset type and the same thresholds  *)
CallRunAllRules ==
    /\ pc = "returned"
    /\ run < MaxRuns
    /\ run' = run + 1
    /\ first_results' = IF run = 1 THEN results ELSE first_results
    /\ results' = InitialResults(results)
    /\ rule_i' = 1
    /\ outcomes' = PendingOutcomes
    /\ invoked' = <<>>
    /\ produced' = <<>>
    /\ pc' = "rules"
    /\ UNCHANGED <<df, df_in, dataset_type, thresholds, alert_input, alert_i,
                   alerts, returned_alerts, now, calls, materialized, prev_call, done>>

(* a caller hands a list of RuleResults to create_alerts_from_results: the *)
(* list run_all_rules returned, or every RuleResult the detectors produced *)
CallCreateAlerts ==
    /\ pc \in {"returned", "alerts_returned", "alerts_raised"}
    /\ calls < MaxCalls
    /\ alert_input' \in {results, produced}
    /\ alert_i' = 1
    /\ alerts' = <<>>
    /\ calls' = calls + 1
    /\ prev_call' = IF pc = "returned" THEN NoCall
                    ELSE [input |-> alert_input,
                          ended |-> IF pc = "alerts_returned"
                                    THEN "returned" ELSE "raised"]
    /\ pc' = "alerts"
    /\ UNCHANGED <<df, df_in, dataset_type, thresholds, rule_i, results,
                   outcomes, invoked, produced, returned_alerts, now, materialized>>
    /\ UNCHANGED <<run, first_results, done>>

(* one iteration of the for loop of create_alerts_from_results, lines 476-488 *)
CreateAlert ==
    /\ pc = "alerts"
    /\ alert_i <= Len(alert_input)
    /\ LET result == alert_input[alert_i]
       IN  IF ~result.passed
           THEN (* datetime.now() is read for the id and again for created_at, *)
                (* both within this step                                       *)
                LET alert == MakeAlert(result, now, now)
                IN  IF AlertValid(alert)
                    THEN /\ alerts' = Append(alerts, alert)
                         /\ alert_i' = alert_i + 1
                         /\ pc' = pc
                    ELSE /\ pc' = "alerts_raised"
                         /\ UNCHANGED <<alerts, alert_i>>
           ELSE /\ alert_i' = alert_i + 1
                /\ UNCHANGED <<alerts, pc>>
    /\ UNCHANGED <<now, df, df_in, dataset_type, thresholds, rule_i, results,
                   outcomes, invoked, produced, alert_input, returned_alerts, calls,
                   materialized>>
    /\ UNCHANGED <<run, first_results, prev_call, done>>

(* the ids of a list of alerts, with their multiplicities *)
RECURSIVE IdBag(_)
IdBag(as) ==
    IF as = <<>> THEN EmptyBag
    ELSE SetToBag({Head(as).id}) (+) IdBag(Tail(as))

(* return alerts, line 490; materialized keeps the ids of every Alert handed out *)
ReturnAlerts ==
    /\ pc = "alerts"
    /\ alert_i > Len(alert_input)
    /\ pc' = "alerts_returned"
    /\ returned_alerts' = alerts
    /\ materialized' = materialized (+) IdBag(alerts)
    /\ UNCHANGED <<df, df_in, dataset_type, thresholds, rule_i, results,
                   outcomes, invoked, produced, alert_input, alert_i, alerts, now, calls>>
    /\ UNCHANGED <<run, first_results, prev_call, done>>

(* the wall clock advances while create_alerts_from_results runs *)
Tick ==
    /\ pc = "alerts"
    /\ now < MaxClock
    /\ now' = now + 1
    /\ UNCHANGED <<df, df_in, dataset_type, thresholds, pc, rule_i, results,
                   outcomes, invoked, produced, alert_input, alert_i, alerts,
                   returned_alerts, calls, materialized>>
    /\ UNCHANGED <<run, first_results, prev_call, done>>

Next ==
    \/ RunRule
    \/ ReturnResults
    \/ CallCreateAlerts
    \/ CreateAlert
    \/ ReturnAlerts
    \/ Tick

Spec == Init /\ [][Next]_vars

(* the engine handed a batch that exercises one detector *)
InitWide == \E b \in WideBatches : Begin(b[1], b[2])

(* one call of run_all_rules *)
NextRun ==
    \/ RunRule
    \/ ReturnResults

SpecWide == InitWide /\ [][NextRun]_vars

(* run_all_rules called again and again on one DataFrame object *)
NextRerun ==
    \/ RunRule
    \/ ReturnResults
    \/ CallRunAllRules

SpecRerun == Init /\ [][NextRerun]_vars

(* the DataFrames a detector that has started but not yet finished may   *)
(* have left behind: the column writes it does before it evaluates       *)
PartialWrites(rule_type, d) ==
    CASE rule_type = "split_orders" ->
             IF {"supplier", "amount", "date"} \subseteq d.columns
             THEN {WriteDateOnly(d)} ELSE {}
      [] rule_type = "unusual_timing" ->
             IF "date" \in d.columns
             THEN {WriteHour(d), WriteDayOfWeek(WriteHour(d))} ELSE {}
      [] OTHER -> {}

(* an applicable detector that has not finished does its column writes *)
StartRule ==
    /\ pc = "rules"
    /\ \E r \in RuleTypeSet :
          /\ _is_rule_applicable(r, dataset_type)
          /\ done[r] = Pending
          /\ df' \in PartialWrites(r, df)
    /\ UNCHANGED <<df_in, dataset_type, thresholds, pc, rule_i, results,
                   outcomes, invoked, produced, alert_input, alert_i, alerts,
                   returned_alerts, now, calls, materialized>>
    /\ UNCHANGED <<run, first_results, prev_call, done>>

(* any applicable detector that has not finished runs to its end on the *)
(* DataFrame as it is now                                               *)
FinishRule ==
    /\ pc = "rules"
    /\ \E r \in RuleTypeSet :
          /\ _is_rule_applicable(r, dataset_type)
          /\ done[r] = Pending
          /\ LET out == rule_func(r, df, thresholds)
             IN  /\ df' = out.df
                 /\ done' = [done EXCEPT ![r] = [kind |-> out.kind, result |-> out.result]]
                 /\ outcomes' = [outcomes EXCEPT ![r] = OutcomeOf(out)]
    /\ UNCHANGED <<df_in, dataset_type, thresholds, pc, rule_i, results,
                   invoked, produced, alert_input, alert_i, alerts,
                   returned_alerts, now, calls, materialized>>
    /\ UNCHANGED <<run, first_results, prev_call>>

(* the outcomes of the first n rule types of the registry, collected *)
RECURSIVE CollectFirst(_, _)
CollectFirst(outs, n) ==
    IF n = 0 THEN InitialResults(<<>>)
    ELSE Collect(CollectFirst(outs, n - 1), outs[RuleTypes[n]])

(* every applicable detector has finished: the failing results are *)
(* collected in the order of the registry and returned             *)
JoinResults ==
    /\ pc = "rules"
    /\ \A r \in RuleTypeSet :
          _is_rule_applicable(r, dataset_type) => done[r] # Pending
    /\ results' = CollectFirst(done, Len(RuleTypes))
    /\ pc' = "returned"
    /\ UNCHANGED <<df, df_in, dataset_type, thresholds, rule_i,
                   outcomes, invoked, produced, alert_input, alert_i, alerts,
                   returned_alerts, now, calls, materialized>>
    /\ UNCHANGED <<run, first_results, prev_call, done>>

NextAnyOrder ==
    \/ StartRule
    \/ FinishRule
    \/ JoinResults

(* the applicable detectors of one batch run in any order, interleaved *)
SpecAnyOrder == Init /\ [][NextAnyOrder]_vars

-----------------------------------------------------------------------------
(* Properties *)

Failing(rs) == SelectSeq(rs, LAMBDA r : ~r.passed)

Applicable == SelectSeq(RuleTypes, LAMBDA r : _is_rule_applicable(r, dataset_type))

RunReturned == pc # "rules"

(* C1: every RuleResult a detector returns with passed = false has a score *)
(* in 1..10 and a non-empty affected_records list.                         *)
C1_FailingResultScored ==
    \A k \in DOMAIN produced :
        ~produced[k].passed =>
            /\ produced[k].score >= 1
            /\ produced[k].score <= 10
            /\ produced[k].affected_records # <<>>

(* each applicable detector run on its own on the DataFrame as it was     *)
(* handed in, an exception counted as no result                           *)
IsolatedFailing ==
    LET out(k) == rule_func(Applicable[k], df_in, thresholds)
        one(k) == IF out(k).kind = "result" /\ ~out(k).result.passed
                  THEN <<out(k).result>> ELSE <<>>
    IN  Concat([k \in 1..Len(Applicable) |-> one(k)])

(* C2: when a detector raises, run_all_rules still returns, every         *)
(* applicable detector has been invoked, and the returned list holds the  *)
(* failing results of the other detectors exactly as if the raising       *)
(* detector had produced no result.                                       *)
C2_FaultIsolation ==
    /\ pc = "returned" => /\ invoked = Applicable
                          /\ results = IsolatedFailing
    /\ (pc = "rules" /\ \E r \in RuleTypeSet : outcomes[r] = "raise")
          => rule_i \in 2..(Len(RuleTypes) + 1) /\ invoked = SubSeq(Applicable, 1, Len(invoked))

C2_Witness ==
    /\ pc = "returned"
    /\ \E i, j \in DOMAIN RuleTypes :
          /\ i < j
          /\ outcomes[RuleTypes[i]] = "raise"
          /\ outcomes[RuleTypes[j]] = "failed"
          /\ \E k \in DOMAIN results : results[k].rule_type = RuleTypes[j]

(* C3: run_all_rules followed by create_alerts_from_results on the list   *)
(* it returned never ends in an exception.                                *)
C3_PipelineNeverRaises ==
    ~(pc = "alerts_raised" /\ alert_input = results)

(* C4: after run_all_rules returns, the DataFrame has the columns and the *)
(* values it had before the call.                                         *)
C4_InputNotMutated ==
    RunReturned => df = df_in

(* the applicability matrix as the specification tabulates it *)
Ticked ==
    [r \in RuleTypeSet |->
        CASE r = "overpricing"            -> {"despesas", "contratos"}
          [] r = "split_orders"           -> {"despesas"}
          [] r = "supplier_concentration" -> {"despesas", "contratos"}
          [] r = "recurring_emergency"    -> {"despesas", "contratos"}
          [] r = "payroll_anomaly"        -> {"folha"}
          [] r = "unusual_timing"         -> {"despesas", "contratos"}
          [] r = "duplicate_payments"     -> {"folha", "despesas"}]

(* C5: a detector is invoked iff its pair with the dataset type is ticked *)
(* in the matrix; no result of another rule type is returned; an unknown  *)
(* dataset type invokes nothing and returns the empty list.               *)
C5_ApplicabilityMatrix ==
    /\ \A k \in DOMAIN invoked : dataset_type \in Ticked[invoked[k]]
    /\ \A k \in DOMAIN results : dataset_type \in Ticked[results[k].rule_type]
    /\ RunReturned =>
          /\ \A r \in RuleTypeSet :
                (r \in Range(invoked)) <=> (dataset_type \in Ticked[r])
          /\ dataset_type \notin {"folha", "despesas", "contratos"}
                => invoked = <<>> /\ results = <<>>

C5_Witness ==
    /\ pc = "returned"
    /\ dataset_type = "contratos"
    /\ "date" \in df_in.columns
    /\ invoked = <<"overpricing", "supplier_concentration",
                   "recurring_emergency", "unusual_timing">>
    /\ Len(df_in.rows) > 0

(* C6: the returned list holds exactly the failing results the applicable *)
(* detectors produced: outcomes None, passed and raised add no element.   *)
C6_OnlyFailingReturned ==
    /\ \A k \in DOMAIN results : ~results[k].passed
    /\ results = Failing(produced)
    /\ \A r \in RuleTypeSet :
          (\E k \in DOMAIN results : results[k].rule_type = r)
              <=> outcomes[r] = "failed"
    /\ Len(results) = Cardinality({r \in RuleTypeSet : outcomes[r] = "failed"})

C6_Witness ==
    /\ pc = "returned"
    /\ \E a, b, c, e \in RuleTypeSet :
          /\ outcomes[a] = "none"
          /\ outcomes[b] = "passed"
          /\ outcomes[c] = "raise"
          /\ outcomes[e] = "failed"
    /\ Len(results) >= 1

(* the fields each detector reads *)
FieldsRead ==
    [r \in RuleTypeSet |->
        CASE r = "overpricing"            -> {"unit_price", "price_mean", "description"}
          [] r = "split_orders"           -> {"supplier", "amount", "date"}
          [] r = "supplier_concentration" -> {"supplier", "amount"}
          [] r = "recurring_emergency"    -> {"is_emergency", "supplier", "date", "amount"}
          [] r = "payroll_anomaly"        -> {"total_payment", "position", "employee_id", "name"}
          [] r = "unusual_timing"         -> {"date"}
          [] r = "duplicate_payments"     -> {"amount", "supplier"}]

(* C7: a detector invoked on a DataFrame that lacks a field it reads does *)
(* not raise (it yields no result).                                       *)
C7_MissingFieldNeverRaises ==
    \A r \in RuleTypeSet :
        ~(FieldsRead[r] \subseteq df_in.columns) => outcomes[r] # "raise"

CallFinished == pc \in {"alerts_returned", "alerts_raised"}

(* C8: every call of create_alerts_from_results ends with a list holding  *)
(* exactly one Alert per failing input result, in input order, and none   *)
(* for a passing one.                                                     *)
C8_OneAlertPerFailingResult ==
    CallFinished =>
        /\ pc = "alerts_returned"
        /\ Len(returned_alerts) = Len(Failing(alert_input))
        /\ \A k \in DOMAIN returned_alerts :
              returned_alerts[k].rule_type = Failing(alert_input)[k].rule_type

(* what an Alert takes from its source result, and what it leaves unset *)
AlertCopies(a, r) ==
    /\ a.rule_type = r.rule_type
    /\ a.description = r.message
    /\ a.risk_score = r.score
    /\ a.risk_score \in 1..10
    /\ a.affected_records = r.affected_records
    /\ a.is_investigated = FALSE
    /\ a.investigator = "None"
    /\ a.notes = "None"

(* C9: every Alert built copies rule type, message, score and affected    *)
(* records from its source result, has a risk score in 1..10, is not      *)
(* investigated, and has no investigator or notes.                        *)
C9_AlertCopiesResult ==
    /\ pc \in {"alerts", "alerts_returned"} =>
          /\ Len(alerts) <= Len(Failing(alert_input))
          /\ \A k \in DOMAIN alerts : AlertCopies(alerts[k], Failing(alert_input)[k])
    /\ pc = "alerts_returned" => returned_alerts = alerts

C9_Witness ==
    /\ pc = "alerts_returned"
    /\ Len(returned_alerts) >= 2
    /\ \E k \in DOMAIN alert_input : alert_input[k].passed

(* C10: no two Alerts handed out share an id. *)
C10_AlertIdsUnique ==
    \A id \in BagToSet(materialized) : CopiesIn(id, materialized) = 1

(* C11: a second call of run_all_rules on the same DataFrame object, the   *)
(* same dataset type and the same thresholds, made after the first call   *)
(* has returned, returns the list the first call returned: the same       *)
(* results in the same order, field by field.                             *)
C11_RerunReturnsSameResults ==
    run >= 2 =>
        /\ Len(results) <= Len(first_results)
        /\ results = SubSeq(first_results, 1, Len(results))
        /\ pc = "returned" => results = first_results

C11_Witness ==
    /\ run = 2
    /\ pc = "returned"
    /\ Len(first_results) >= 2
    /\ df # df_in
    /\ \E r \in RuleTypeSet : outcomes[r] = "raise"

(* two Alerts that agree on every field but id and created_at *)
SameButIdAndCreatedAt(a, b) ==
    /\ a.rule_type = b.rule_type
    /\ a.title = b.title
    /\ a.description = b.description
    /\ a.risk_score = b.risk_score
    /\ a.affected_records = b.affected_records
    /\ a.is_investigated = b.is_investigated
    /\ a.investigated_at = b.investigated_at
    /\ a.investigator = b.investigator
    /\ a.notes = b.notes

(* C12: a call of create_alerts_from_results on the list of failing       *)
(* results the call before was given ends, as that call did, with a list  *)
(* of Alerts: both lists have one length and their Alerts agree, position *)
(* by position, on every field but id and created_at.                     *)
C12_MaterializeTwiceAgrees ==
    (/\ calls >= 2
     /\ alert_input = prev_call.input
     /\ \A k \in DOMAIN alert_input : ~alert_input[k].passed) =>
        /\ prev_call.ended = "returned"
        /\ pc # "alerts_raised"
        /\ (pc = "alerts" /\ alert_i > Len(alert_input)) =>
              /\ Len(alerts) = Len(returned_alerts)
              /\ \A k \in DOMAIN alerts :
                    SameButIdAndCreatedAt(alerts[k], returned_alerts[k])

(* what a detector returns when it alone runs on the DataFrame as handed in *)
Alone(r) ==
    LET out == rule_func(r, df_in, thresholds)
    IN  [kind |-> out.kind, result |-> out.result]

(* C13: in whatever order the applicable detectors run, and whatever      *)
(* columns other detectors have written by then, each detector ends as it *)
(* ends when it runs alone on the DataFrame as handed in, and the list    *)
(* returned is the list of those failing results in registry order.      *)
C13_DetectorsIndependent ==
    /\ \A r \in RuleTypeSet : done[r] # Pending => done[r] = Alone(r)
    /\ pc = "returned" => results = IsolatedFailing

C13_Witness ==
    /\ pc = "returned"
    /\ done["unusual_timing"].kind = "result"
    /\ done["split_orders"].kind = "result"
    /\ ~done["split_orders"].result.passed
    /\ done["duplicate_payments"].kind = "result"
    /\ "hour" \in df.columns /\ DateOnlyColumn \in df.columns
    /\ Len(results) >= 3

(* the place of a rule type in the registry *)
Position(r) == CHOOSE i \in DOMAIN RuleTypes : RuleTypes[i] = r

(* C14: within one call of run_all_rules the applicable detectors are     *)
(* invoked once each, in registry order, a detector that raised included, *)
(* and the returned list holds at most one result per rule type, in       *)
(* registry order.                                                        *)
C14_InvokedOnceInRegistryOrder ==
    /\ \A j, k \in DOMAIN invoked : j < k => Position(invoked[j]) < Position(invoked[k])
    /\ \A k \in DOMAIN invoked : _is_rule_applicable(invoked[k], dataset_type)
    /\ \A r \in RuleTypeSet :
          outcomes[r] \in {"none", "raise", "passed", "failed"}
              => Cardinality({k \in DOMAIN invoked : invoked[k] = r}) = 1
    /\ \A j, k \in DOMAIN results :
          j < k => Position(results[j].rule_type) < Position(results[k].rule_type)
    /\ RunReturned =>
          \A r \in RuleTypeSet :
              _is_rule_applicable(r, dataset_type)
                  => Cardinality({k \in DOMAIN invoked : invoked[k] = r}) = 1

C14_Witness ==
    /\ pc = "returned"
    /\ Len(invoked) = 6
    /\ Len(results) >= 3
    /\ \E r \in RuleTypeSet : outcomes[r] = "raise"

(* the detector of rule type r has been invoked in this call *)
Invoked(r) == outcomes[r] \in {"none", "raise", "passed", "failed"}

(* the RuleResult the detector of rule type r returned in this call *)
ResultOf(r) == produced[CHOOSE k \in DOMAIN produced : produced[k].rule_type = r]

(* a list that holds exactly the members of S, once each *)
ListsExactly(list, S) == Range(list) = S /\ Len(list) = Cardinality(S)

(* the records priced above the market mean by more than the threshold *)
Overpriced ==
    {i \in Idx(df_in) :
        /\ df_in.rows[i].unit_price > 0
        /\ df_in.rows[i].price_mean > 0
        /\ 100 * df_in.rows[i].unit_price
               > df_in.rows[i].price_mean * (100 + thresholds.overpricing_percentage)}

(* C15: on a DataFrame with unit_price and price_mean, _check_overpricing *)
(* returns a failing result iff some record has unit_price > 0,           *)
(* price_mean > 0 and unit_price > price_mean * (1 + percentage/100), and *)
(* the affected_records of that result are exactly those records.         *)
C15_OverpricingFlagsExactly ==
    (Invoked("overpricing") /\ {"unit_price", "price_mean"} \subseteq df_in.columns) =>
        /\ outcomes["overpricing"] = "failed" <=> Overpriced # {}
        /\ outcomes["overpricing"] = "failed" =>
              ListsExactly(ResultOf("overpricing").affected_records, Overpriced)

(* the sum and the product of f over a finite set *)
RECURSIVE SumOfSet(_, _)
SumOfSet(S, f) ==
    IF S = {} THEN 0 ELSE f[AnyOf(S)] + SumOfSet(S \ {AnyOf(S)}, f)

(* the sum of g[i] over the records i of S of the DataFrame as handed in *)
SumOfRecords(S, g) == SumSeq([i \in Idx(df_in) |-> IF i \in S THEN g[i] ELSE 0])

RECURSIVE ProductOfSet(_, _)
ProductOfSet(S, f) ==
    IF S = {} THEN 1 ELSE f[AnyOf(S)] * ProductOfSet(S \ {AnyOf(S)}, f)

(* floor(avgOverpricingPct / 50): the b with 50*b <= avg < 50*(b+1), where *)
(* avg is the mean over the flagged records of (unit_price/price_mean - 1) *)
(* * 100, every term brought to the common denominator M                   *)
FloorAvgOverpricingBy50 ==
    LET n == Cardinality(Overpriced)
        M == ProductOfSet(Overpriced, [i \in Overpriced |-> df_in.rows[i].price_mean])
        total == SumOfSet(Overpriced, [i \in Overpriced |->
                    100 * (df_in.rows[i].unit_price - df_in.rows[i].price_mean)
                        * (M \div df_in.rows[i].price_mean)])
    IN  CHOOSE b \in 0..20 : 50 * b * n * M <= total /\ total < 50 * (b + 1) * n * M

(* C16: a failing result of _check_overpricing has the score              *)
(* min(10, floor(flaggedCount/10) + floor(avgOverpricingPct/50)).         *)
C16_OverpricingScore ==
    outcomes["overpricing"] = "failed" =>
        LET n == Cardinality(Overpriced)
            sum == (n \div 10) + FloorAvgOverpricingBy50
        IN  ResultOf("overpricing").score = IF sum > 10 THEN 10 ELSE sum

C16_Witness ==
    /\ outcomes["overpricing"] = "failed"
    /\ Cardinality(Overpriced) >= 10
    /\ FloorAvgOverpricingBy50 >= 2
    /\ ResultOf("overpricing").score = 3

(* the (supplier, calendar date) pairs of the DataFrame as handed in; *)
(* there are none unless supplier, amount and date are all there     *)
SupplierDays ==
    IF {"supplier", "amount", "date"} \subseteq df_in.columns
    THEN {<<df_in.rows[i].supplier, DateOnly(df_in.rows[i].date)>> : i \in Idx(df_in)}
    ELSE {}

OrdersOf(sd) ==
    {i \in Idx(df_in) :
        df_in.rows[i].supplier = sd[1] /\ DateOnly(df_in.rows[i].date) = sd[2]}

(* more than one record, at least two amounts strictly below the   *)
(* threshold, and a summed amount strictly above it                *)
SuspiciousSupplierDays ==
    {sd \in SupplierDays :
        /\ Cardinality(OrdersOf(sd)) > 1
        /\ Cardinality({i \in OrdersOf(sd) :
               df_in.rows[i].amount < thresholds.split_order_threshold}) >= 2
        /\ SumOfRecords(OrdersOf(sd), [i \in OrdersOf(sd) |-> df_in.rows[i].amount])
               > thresholds.split_order_threshold}

(* the groups a failing split_orders result reports as suspicious *)
ReportedSplits == ResultOf("split_orders").evidence[1][2]

(* C17: _check_split_orders fails iff some (supplier, calendar date)      *)
(* group has more than one record, at least two amounts strictly below    *)
(* split_order_threshold and a sum strictly above it, and the groups it   *)
(* reports as suspicious are exactly those groups.                        *)
C17_SplitOrdersFlagsExactly ==
    Invoked("split_orders") =>
        /\ outcomes["split_orders"] = "failed" <=> SuspiciousSupplierDays # {}
        /\ outcomes["split_orders"] = "failed" =>
              /\ ListsExactly([k \in DOMAIN ReportedSplits |->
                                  <<ReportedSplits[k].supplier, ReportedSplits[k].date>>],
                              SuspiciousSupplierDays)
              /\ \A k \in DOMAIN ReportedSplits :
                    Range(ReportedSplits[k].record_ids)
                        = OrdersOf(<<ReportedSplits[k].supplier, ReportedSplits[k].date>>)

C17_Witness ==
    /\ outcomes["split_orders"] = "failed"
    /\ thresholds.split_order_threshold = 8000
    /\ SupplierDays = {<<"A", 0>>, <<"B", 0>>, <<"B", 1>>, <<"B", 2>>}
    /\ \A i \in Idx(df_in) : df_in.rows[i].amount = 3000
    /\ SuspiciousSupplierDays = {<<"A", 0>>}
    /\ ResultOf("split_orders").affected_records = <<1, 2, 3>>

(* the suppliers of the DataFrame as handed in and what each was paid; *)
(* there is no spend unless supplier and amount are both there        *)
SpendColumns == {"supplier", "amount"} \subseteq df_in.columns

SuppliersPaid == {df_in.rows[i].supplier : i \in Idx(df_in)}

PaidTo(sup) ==
    LET mine == {i \in Idx(df_in) : df_in.rows[i].supplier = sup}
    IN  SumOfRecords(mine, [i \in mine |-> df_in.rows[i].amount])

TotalSpend == SumOfRecords(Idx(df_in), [i \in Idx(df_in) |-> df_in.rows[i].amount])

(* the largest amount paid to one supplier, and the largest paid to three *)
(* (or to all, when there are fewer than three)                           *)
LargestPaid == CHOOSE x \in {PaidTo(sup) : sup \in SuppliersPaid} :
                   \A sup \in SuppliersPaid : PaidTo(sup) <= x

LargestThreePaid ==
    LET some3 == {T \in SUBSET SuppliersPaid :
                     Cardinality(T) = Min(3, Cardinality(SuppliersPaid))}
        paid(T) == SumOfSet(T, [sup \in T |-> PaidTo(sup)])
    IN  paid(CHOOSE T \in some3 : \A U \in some3 : paid(U) <= paid(T))

(* paid / TotalSpend > hundredths / 100, for a non-zero TotalSpend of *)
(* either sign                                                       *)
ShareAbove(paid, hundredths) ==
    IF TotalSpend > 0 THEN 100 * paid > hundredths * TotalSpend
                      ELSE 100 * paid < hundredths * TotalSpend

(* C18: with a non-zero total spend, _check_supplier_concentration fails   *)
(* iff the largest supplier's share of the total is strictly above         *)
(* supplier_concentration_threshold or the three largest suppliers'        *)
(* combined share is strictly above 0.80.                                  *)
C18_ConcentrationFailsExactly ==
    (Invoked("supplier_concentration") /\ SpendColumns /\ TotalSpend # 0) =>
        (outcomes["supplier_concentration"] = "failed"
            <=> \/ ShareAbove(LargestPaid, thresholds.supplier_concentration_threshold)
                \/ ShareAbove(LargestThreePaid, 80))

C18_Witness ==
    /\ outcomes["supplier_concentration"] = "failed"
    /\ Cardinality(SuppliersPaid) = 10
    /\ thresholds.supplier_concentration_threshold = 70
    /\ 10 * LargestPaid = 9 * TotalSpend
    /\ 100 * LargestThreePaid > 80 * TotalSpend

(* the emergency records of the DataFrame as handed in, and of a supplier; *)
(* there are none to date unless is_emergency, supplier and date are there *)
EmergencyColumns == {"is_emergency", "supplier", "date"} \subseteq df_in.columns

EmergenciesOf(sup) ==
    {i \in Idx(df_in) : df_in.rows[i].is_emergency /\ df_in.rows[i].supplier = sup}

(* whole days between the earliest and the latest emergency of a supplier *)
SpanDays(sup) ==
    LET dates == {df_in.rows[i].date : i \in EmergenciesOf(sup)}
        earliest == CHOOSE t \in dates : \A u \in dates : t <= u
        latest == CHOOSE t \in dates : \A u \in dates : u <= t
    IN  (latest - earliest) \div 24

SuspiciousSuppliers ==
    IF EmergencyColumns
    THEN {sup \in SuppliersPaid :
             /\ Cardinality(EmergenciesOf(sup)) > 1
             /\ SpanDays(sup) <= thresholds.emergency_recurrence_days}
    ELSE {}

SuspiciousEmergencies == UNION {EmergenciesOf(sup) : sup \in SuspiciousSuppliers}

(* C19: _check_recurring_emergency fails iff some supplier has more than  *)
(* one emergency record and at most emergency_recurrence_days whole days  *)
(* between its earliest and its latest; the affected_records are exactly  *)
(* the emergency records of those suppliers and the score is              *)
(* min(10, 2 * suppliers + floor(records / 5)).                           *)
C19_RecurringEmergencyExactly ==
    Invoked("recurring_emergency") =>
        /\ outcomes["recurring_emergency"] = "failed" <=> SuspiciousSuppliers # {}
        /\ outcomes["recurring_emergency"] = "failed" =>
              /\ ListsExactly(ResultOf("recurring_emergency").affected_records,
                              SuspiciousEmergencies)
              /\ ResultOf("recurring_emergency").score
                    = Min(10, 2 * Cardinality(SuspiciousSuppliers)
                                + (Cardinality(SuspiciousEmergencies) \div 5))

(* the records of the position of record i, their number, the sum of their *)
(* payments and the sum of the squares; there are none unless position and *)
(* total_payment are there                                                 *)
PayrollColumns == {"position", "total_payment"} \subseteq df_in.columns

Colleagues(i) == {j \in Idx(df_in) : df_in.rows[j].position = df_in.rows[i].position}

PaySum(G) == SumOfRecords(G, [j \in G |-> df_in.rows[j].total_payment])

PaySquares(G) ==
    SumOfRecords(G, [j \in G |-> df_in.rows[j].total_payment * df_in.rows[j].total_payment])

(* |x - mean| > 2 * std and |x - mean| / mean > threshold for the payment x *)
(* of record i in its group of n records, with mean = S/n and the sample    *)
(* variance std^2 = (n*Q - S*S) / (n*(n-1)); both sides of the first are    *)
(* squared and cleared of denominators                                      *)
PayrollOutliers ==
    IF PayrollColumns
    THEN {i \in Idx(df_in) :
             LET G == Colleagues(i)
                 n == Cardinality(G)
                 S == PaySum(G)
                 Q == PaySquares(G)
                 x == df_in.rows[i].total_payment
             IN  /\ n >= 3
                 /\ S > 0
                 /\ (n * x - S) * (n * x - S) * (n - 1) > 4 * n * (n * Q - S * S)
                 /\ 100 * Abs(n * x - S) > thresholds.payroll_variation_threshold * S}
    ELSE {}

(* C20: _check_payroll_anomaly fails iff some record of a position group  *)
(* of at least 3 records is more than 2 standard deviations from the      *)
(* group mean and its relative deviation from the mean is above           *)
(* payroll_variation_threshold; the affected_records are exactly those    *)
(* records and the score is min(10, their number).                        *)
C20_PayrollOutliersExactly ==
    Invoked("payroll_anomaly") =>
        /\ outcomes["payroll_anomaly"] = "failed" <=> PayrollOutliers # {}
        /\ outcomes["payroll_anomaly"] = "failed" =>
              /\ ListsExactly(ResultOf("payroll_anomaly").affected_records, PayrollOutliers)
              /\ ResultOf("payroll_anomaly").score = Min(10, Cardinality(PayrollOutliers))

(* C21: for one position group of 5 employees paid 5000, 5100, 4900, 5050 *)
(* and 20000 and payroll_variation_threshold = 0.30, the detector         *)
(* _check_payroll_anomaly returns a failing result whose affected_records *)
(* are exactly the record paid 20000.                                     *)
C21_PayrollExampleFlagged ==
    (/\ Invoked("payroll_anomaly")
     /\ df_in = Frame(ColsFolha, PayRows(ExamplePayments))
     /\ thresholds.payroll_variation_threshold = 30) =>
        /\ outcomes["payroll_anomaly"] = "failed"
        /\ ResultOf("payroll_anomaly").affected_records = <<5>>

(* the records of the DataFrame as handed in whose timestamp falls in the *)
(* late night or early morning, or on a Saturday or Sunday; there is no   *)
(* timestamp without the date column                                     *)
FlaggedTimes ==
    IF "date" \in df_in.columns
    THEN {i \in Idx(df_in) :
             \/ HourOf(df_in.rows[i].date) \in {0, 1, 2, 3, 4, 5, 22, 23}
             \/ DayOfWeek(df_in.rows[i].date) \in {5, 6}}
    ELSE {}

(* C22: _check_unusual_timing flags a record iff the hour of its timestamp *)
(* is in {0,1,2,3,4,5,22,23} or its day of week is Saturday or Sunday; the *)
(* detector fails iff at least one record is flagged, and the              *)
(* affected_records are exactly the flagged records.                       *)
C22_UnusualTimingFlagsExactly ==
    Invoked("unusual_timing") =>
        /\ outcomes["unusual_timing"] = "failed" <=> FlaggedTimes # {}
        /\ outcomes["unusual_timing"] = "failed" =>
              ListsExactly(ResultOf("unusual_timing").affected_records, FlaggedTimes)

(* a Monday 6 o'clock purchase left out, next to a Friday 22 o'clock and a *)
(* Saturday one that are flagged                                           *)
C22_Witness ==
    /\ outcomes["unusual_timing"] = "failed"
    /\ Len(df_in.rows) = 3
    /\ df_in.rows[1].date = At(0, 6)
    /\ df_in.rows[2].date = At(4, 22)
    /\ df_in.rows[3].date = At(5, 10)
    /\ ResultOf("unusual_timing").affected_records = <<2, 3>>

(* C23: every failing result of _check_unusual_timing has                 *)
(* score = min(10, floor(flaggedCount / 10)), flaggedCount being the      *)
(* number of flagged records.                                             *)
C23_UnusualTimingScore ==
    outcomes["unusual_timing"] = "failed" =>
        ResultOf("unusual_timing").score = Min(10, Cardinality(FlaggedTimes) \div 10)

(* 19 flagged records score 1 *)
C23_Witness ==
    /\ outcomes["unusual_timing"] = "failed"
    /\ Cardinality(FlaggedTimes) = 19
    /\ ResultOf("unusual_timing").score = 1

(* the fields among supplier, amount and date that the DataFrame as handed *)
(* in carries, the key of a record over them, and the records that share  *)
(* their key with another record                                          *)
KeyFields == {"supplier", "amount", "date"} \cap df_in.columns

KeyOf(i) == [c \in KeyFields |-> df_in.rows[i][c]]

Duplicated == {i \in Idx(df_in) : \E j \in Idx(df_in) : j # i /\ KeyOf(j) = KeyOf(i)}

ReportedDuplicates == ResultOf("duplicate_payments").evidence[1][2]

(* C24: when _check_duplicate_payments runs, a record is in               *)
(* affected_records iff at least one other record has the identical key   *)
(* over the key fields in use; the records of a reported group all have   *)
(* the same key, so two records that differ in any key field are never in *)
(* the same group; each reported group has more than one member; and      *)
(* score = min(10, duplicateGroupCount).                                  *)
C24_DuplicateGroups ==
    outcomes["duplicate_payments"] \in {"passed", "failed"} =>
        /\ outcomes["duplicate_payments"] = "failed" <=> Duplicated # {}
        /\ ListsExactly(ResultOf("duplicate_payments").affected_records, Duplicated)
        /\ outcomes["duplicate_payments"] = "failed" =>
              /\ \A k \in DOMAIN ReportedDuplicates :
                    /\ Cardinality(Range(ReportedDuplicates[k].record_ids)) > 1
                    /\ \A i, j \in Range(ReportedDuplicates[k].record_ids) :
                          KeyOf(i) = KeyOf(j)
              /\ Len(ReportedDuplicates) = Cardinality({KeyOf(i) : i \in Duplicated})
              /\ ResultOf("duplicate_payments").score
                    = Min(10, Cardinality({KeyOf(i) : i \in Duplicated}))

(* two payments of 500 form the one group; the payment of 501 to the same *)
(* supplier on the same day is left out                                   *)
C24_Witness ==
    /\ outcomes["duplicate_payments"] = "failed"
    /\ KeyFields = {"supplier", "amount", "date"}
    /\ Len(df_in.rows) = 3
    /\ df_in.rows[1].amount = 500 /\ df_in.rows[2].amount = 501 /\ df_in.rows[3].amount = 500
    /\ df_in.rows[1].supplier = df_in.rows[2].supplier
    /\ df_in.rows[1].date = df_in.rows[2].date
    /\ ResultOf("duplicate_payments").affected_records = <<1, 3>>
    /\ Len(ReportedDuplicates) = 1
    /\ ResultOf("duplicate_payments").score = 1

(* C25: _check_duplicate_payments runs whenever at least two of the fields *)
(* supplier, amount, date exist on the dataset (any two of them), with     *)
(* exactly the fields that exist as the composite key, and returns no      *)
(* result only when fewer than two of them exist.                          *)
C25_DuplicateKeySelection ==
    Invoked("duplicate_payments") =>
        /\ outcomes["duplicate_payments"] = "none" <=> Cardinality(KeyFields) < 2
        /\ outcomes["duplicate_payments"] = "failed" =>
              Range(ResultOf("duplicate_payments").evidence[3][2]) = KeyFields

(* C26: zero denominators short-circuit to "no anomaly": a record with     *)
(* price_mean = 0 is never flagged by _check_overpricing, a position group *)
(* whose mean total_payment is 0 contributes no outlier to                 *)
(* _check_payroll_anomaly, and a Record Set whose total spend is 0 gives   *)
(* no failing result from _check_supplier_concentration.                   *)
C26_ZeroDenominatorsNeverFlag ==
    /\ outcomes["overpricing"] = "failed" =>
          \A i \in Range(ResultOf("overpricing").affected_records) :
              df_in.rows[i].price_mean # 0
    /\ outcomes["payroll_anomaly"] = "failed" =>
          \A i \in Range(ResultOf("payroll_anomaly").affected_records) :
              PaySum(Colleagues(i)) # 0
    /\ (SpendColumns /\ TotalSpend = 0) => outcomes["supplier_concentration"] # "failed"

(* C27: in _check_payroll_anomaly a position group with fewer than 6      *)
(* records never contributes an outlier, whatever its payments and        *)
(* whatever payroll_variation_threshold is: every affected record of a    *)
(* failing result belongs to a position group of at least 6 records.      *)
C27_NoOutlierBelowSixRecords ==
    outcomes["payroll_anomaly"] = "failed" =>
        \A i \in Range(ResultOf("payroll_anomaly").affected_records) :
            Cardinality(Colleagues(i)) >= 6

(* six chiefs and five clerks with the same payments and one payment of   *)
(* 200 in each group: only the chief is reported                          *)
C27_Witness ==
    /\ outcomes["payroll_anomaly"] = "failed"
    /\ Len(df_in.rows) = 11
    /\ Cardinality(Colleagues(6)) = 6 /\ df_in.rows[6].total_payment = 200
    /\ Cardinality(Colleagues(11)) = 5 /\ df_in.rows[11].total_payment = 200
    /\ ResultOf("payroll_anomaly").affected_records = <<6>>

(* the suppliers a failing supplier_concentration result lists as *)
(* concentrated, in the order listed                             *)
ReportedConcentrated == ResultOf("supplier_concentration").evidence[1][2]

ListedSuppliers == {ReportedConcentrated[k].supplier : k \in DOMAIN ReportedConcentrated}

(* C28: whenever the Record Set has at most 3 distinct suppliers and a    *)
(* non-zero total spend, _check_supplier_concentration returns a failing  *)
(* result, whatever supplier_concentration_threshold is and however the   *)
(* spend is spread; every one of those suppliers is listed as             *)
(* concentrated and every record is in affected_records.                  *)
C28_FewSuppliersAlwaysFail ==
    (/\ Invoked("supplier_concentration")
     /\ SpendColumns
     /\ Cardinality(SuppliersPaid) \in 1..3
     /\ TotalSpend # 0) =>
        /\ outcomes["supplier_concentration"] = "failed"
        /\ ListedSuppliers = SuppliersPaid
        /\ ListsExactly(ResultOf("supplier_concentration").affected_records, Idx(df_in))

(* three suppliers with a third of the spend each, under the threshold of *)
(* 0.9: all three are listed                                              *)
C28_Witness ==
    /\ outcomes["supplier_concentration"] = "failed"
    /\ thresholds.supplier_concentration_threshold = 90
    /\ Cardinality(SuppliersPaid) = 3
    /\ \A sup \in SuppliersPaid : 3 * PaidTo(sup) = TotalSpend
    /\ TotalSpend > 0
    /\ ListedSuppliers = SuppliersPaid

(* floor(num / den) for den # 0 *)
FloorOf(num, den) == IF den > 0 THEN num \div den ELSE (-num) \div (-den)

(* C30: every failing result of _check_supplier_concentration has         *)
(* score = min(10, floor(topShare * 10) + concentratedSupplierCount) with *)
(* 1 <= concentratedSupplierCount <= 3, no supplier listed twice among    *)
(* the concentrated suppliers, and affected_records equal to exactly the  *)
(* records whose supplier is listed as concentrated.                      *)
C30_ConcentrationScore ==
    outcomes["supplier_concentration"] = "failed" =>
        /\ ResultOf("supplier_concentration").score
              = Min(10, FloorOf(10 * LargestPaid, TotalSpend) + Len(ReportedConcentrated))
        /\ Len(ReportedConcentrated) \in 1..3
        /\ Cardinality(ListedSuppliers) = Len(ReportedConcentrated)
        /\ ListsExactly(ResultOf("supplier_concentration").affected_records,
                        {i \in Idx(df_in) : df_in.rows[i].supplier \in ListedSuppliers})

(* every record of every suspicious (supplier, date) group *)
SplitRecords == UNION {OrdersOf(sd) : sd \in SuspiciousSupplierDays}

(* C29: affected_records of a failing _check_split_orders result is the   *)
(* concatenation of all records of every suspicious (supplier, date)      *)
(* group, the records at or above split_order_threshold included, each    *)
(* record exactly once, and                                               *)
(* score = min(10, suspiciousGroupCount + floor(totalAffectedRecords/5)). *)
C29_SplitOrdersAffectedAndScore ==
    outcomes["split_orders"] = "failed" =>
        /\ ListsExactly(ResultOf("split_orders").affected_records, SplitRecords)
        /\ ResultOf("split_orders").affected_records
              = Concat([k \in DOMAIN ReportedSplits |-> ReportedSplits[k].record_ids])
        /\ ResultOf("split_orders").score
              = Min(10, Cardinality(SuspiciousSupplierDays)
                          + (Cardinality(SplitRecords) \div 5))

(* the orders of two days taken in turn, one of them of 9000 with the     *)
(* threshold 8000: the records of the first day come first, the order of *)
(* 9000 among them, and 2 groups with 6 records score 3                  *)
C29_Witness ==
    /\ outcomes["split_orders"] = "failed"
    /\ thresholds.split_order_threshold = 8000
    /\ Cardinality(SuspiciousSupplierDays) = 2
    /\ Len(df_in.rows) = 6
    /\ df_in.rows[5].amount = 9000
    /\ ResultOf("split_orders").affected_records = <<1, 3, 5, 2, 4, 6>>
    /\ ResultOf("split_orders").score = 3

=============================================================================
